---- MODULE Spec2Model ----
\* Model of the checkpointed place-ingestion job (src/job.js; src/server.js
\* holds the same main() over a file-backed checkpoint).
\*
\* One run of main() is a sequence of awaited steps; every await is one action
\* of the model, and every awaited call that can reject has a failing branch
\* that transfers control to the catch block of main().
EXTENDS Integers, Sequences, FiniteSets, TLC

\* ------------------------------------------------------------------ bounds
MaxRuns == 2            \* invocations of main() that are explored
MaxResults == 1         \* places returned by one nearbySearch call

\* ------------------------------------------------------- program constants
maxProcessed == 10

PLACE_TYPES == <<"store", "restaurant", "lodging", "bar">>

\* ------------------------------------------------------------ environment
Workers == {1, 2}
Solo == {1}

None == "none"

PlaceIds == {"p1", "p2"}

\* Ids of the locations that have places around them.
PopulatedIds == {1, 2}

\* The places the directory can report (id, map link, types, display name).
Candidates ==
  { [id |-> "p1", googleMapsUri |-> "u1", types |-> <<"store">>, displayName |-> "n1"],
    [id |-> "p1", googleMapsUri |-> "u1", types |-> <<"bar", "store">>, displayName |-> "n1"],
    [id |-> "p2", googleMapsUri |-> "u2", types |-> <<"restaurant">>, displayName |-> None] }

\* What the details endpoint can answer for a place.
DetailsResponses ==
  { [internationalPhoneNumber |-> None, websiteUri |-> None],
    [internationalPhoneNumber |-> "tel", websiteUri |-> "web"] }

NoDetails == [internationalPhoneNumber |-> None, websiteUri |-> None]
NoDocument == [index |-> 0, types |-> <<>>]
NoError == [kind |-> None, from |-> None]
NoNote == [status |-> None, count |-> 0, message |-> NoError]

SeqsUpTo(S, n) == UNION { [1..k -> S] : k \in 0..n }

Loc(n) == [id |-> n]

\* Short lists over the populated ids, in any order and with repeated ids.
ShortLists ==
  { [k \in DOMAIN s |-> Loc(s[k])] :
      s \in SeqsUpTo(PopulatedIds, Cardinality(PopulatedIds)) }

\* The spec's example list (ids 3..7) and a list longer than the cap (ids
\* 11, 12, ...), once in ascending order and once with its first two entries
\* swapped.
ExampleList == [k \in 1..5 |-> Loc(k + 2)]
LongList == [k \in 1..(maxProcessed + 2) |-> Loc(k + 10)]
LongListSwapped == [k \in 1..(maxProcessed + 2) |->
                      IF k = 1 THEN Loc(12) ELSE IF k = 2 THEN Loc(11) ELSE Loc(k + 10)]

\* A list that repeats an id and then falls below it.
RepeatedList == <<Loc(2), Loc(2), Loc(1)>>

LocationLists ==
  ShortLists \cup {ExampleList, LongList, LongListSwapped, RepeatedList}

\* Checkpoint collection before the first run: empty, or one document.
InitialCheckpoints == {<<>>, <<[lastProcessedLocationId |-> 5]>>}

\* Only the locations of the short lists have places around them.
Populated(location) == location.id \in PopulatedIds

\* A location outside the lists above with a single place around it.
LoneLocation == Loc(31)
LoneCandidates == { c \in Candidates : c.id = "p2" }

VARIABLES
  locations,      \* Location collection (read-only reference data)
  checkpoints,    \* Checkpoint collection: at most one document
  places,         \* Place collection, in insertion order
  pc,             \* per run: the await main() is suspended at
  locs,           \* main: const locations
  checkpointId,   \* main: let checkpointId
  processedCount, \* main: let processedCount
  i,              \* main: loop index (1-based)
  typeIdx,        \* main: position in PLACE_TYPES
  allPlaces,      \* main: const allPlaces (Set of strings, insertion order)
  placeIdx,       \* main: position of the for-of over allPlaces
  existingPlace,  \* processPlace: the found document (index 0 for null)
  placeDetails,   \* processPlace: const placeDetails
  error           \* main: the caught error

\* History variables: they record what the run did and never feed a guard.
VARIABLES
  runs,           \* invocations of main() launched so far
  cp0,            \* the checkpoint value before the first run
  cpAtStart,      \* per run: the value readCheckpoint returned
  completed,      \* per run: list positions fully processed, in order
  fullRuns,       \* per list position: runs that fully processed it
  handledTypes,   \* per place id: types of the candidates processPlace finished
  created,        \* per place id: documents created by processPlace
  alertCalls,     \* per place id: calls of sendDiscordAlert
  endNotes,       \* per run: calls of sendEndNotification
  lastNote,       \* per run: status and message of the last end notification
  cpWrites,       \* per run: calls of writeCheckpoint that saved
  lastOp,         \* per run: the operation performed by the latest step
  fetched,        \* place ids getPlaceDetails has been called for
  returned,       \* per run: candidates the searches of this location returned
  passed,         \* per run: candidates handed to processPlace for this location
  undelivered     \* per run: place ids whose alert post was rejected

progVars == <<locations, checkpoints, places, pc, locs, checkpointId,
              processedCount, i, typeIdx, allPlaces, placeIdx, existingPlace,
              placeDetails, error>>
histVars == <<runs, cp0, cpAtStart, completed, fullRuns, handledTypes, created,
              alertCalls, endNotes, lastNote, cpWrites, lastOp, fetched,
              returned, passed, undelivered>>
vars == <<progVars, histVars>>

\* --------------------------------------------------------------- helpers
Range(s) == { s[k] : k \in DOMAIN s }

\* checkpointSchema: lastProcessedLocationId defaults to 0.
DefaultCheckpoint == [lastProcessedLocationId |-> 0]

\* The value a reader of the checkpoint collection gets.
StoredCheckpoint ==
  IF checkpoints = <<>> THEN DefaultCheckpoint.lastProcessedLocationId
  ELSE checkpoints[1].lastProcessedLocationId

\* JSON.stringify(place) / JSON.parse(placeString): the string is modelled as
\* the tuple of the four fields the field mask asks for, in key order.
Stringify(place) == <<place.id, place.googleMapsUri, place.types, place.displayName>>
Parse(placeString) ==
  [id |-> placeString[1], googleMapsUri |-> placeString[2],
   types |-> placeString[3], displayName |-> placeString[4]]

\* Variant of the add: two strings with the same place id count as equal.
SetAddById(set, str) ==
  IF \E k \in DOMAIN set : set[k][1] = str[1] THEN set ELSE Append(set, str)

\* Set.prototype.add on an insertion-ordered Set of strings.
SetAdd(set, str) == IF str \in Range(set) THEN set ELSE Append(set, str)

RECURSIVE AddAll(_, _)
AddAll(set, found) ==
  IF found = <<>> THEN set
  ELSE AddAll(SetAdd(set, Stringify(Head(found))), Tail(found))

\* Variant of the filter: every reported type counts as new.
FilterNewAll(types, existing) == types

\* Array.prototype.filter(type => !existing.includes(type))
RECURSIVE FilterNew(_, _)
FilterNew(types, existing) ==
  IF types = <<>> THEN <<>>
  ELSE IF Head(types) \in Range(existing)
       THEN FilterNew(Tail(types), existing)
       ELSE <<Head(types)>> \o FilterNew(Tail(types), existing)

\* [...new Set(array)]: first occurrences, in order.
RECURSIVE Dedup(_)
Dedup(array) ==
  IF array = <<>> THEN <<>>
  ELSE LET front == Dedup(SubSeq(array, 1, Len(array) - 1))
           last == array[Len(array)]
       IN IF last \in Range(front) THEN front ELSE Append(front, last)

\* Variant of the lookup: it never finds a document.
FindOneIndexNull(id) == 0

\* Place.findOne({ id }): position of the first matching document, 0 for null.
FindOneIndex(id) ==
  IF \E k \in DOMAIN places : places[k].id = id
  THEN CHOOSE k \in DOMAIN places :
         /\ places[k].id = id
         /\ \A j \in DOMAIN places : places[j].id = id => k <= j
  ELSE 0

\* Variants of the skip test: the test left out, and a strict comparison.
AlreadyDoneOmitted(location, cursor) == FALSE
AlreadyDoneStrict(location, cursor) == location.id < cursor

\* main, line 212: `if (location.id <= checkpointId) continue;`
AlreadyDone(location, cursor) == location.id <= cursor

\* main, line 209: the loop condition.
LoopContinues(index, list, count) == index <= Len(list) /\ count < maxProcessed

\* Variant of the website test: every new place is reported.
LacksWebsiteAlways(details) == TRUE

\* processPlace, line 189: `!placeDetails.websiteUri`
LacksWebsite(details) == details.websiteUri = None

\* What one nearbySearch call can return for a location.
SearchResults(location) ==
  IF Populated(location) THEN SeqsUpTo(Candidates, MaxResults)
  ELSE IF location = LoneLocation THEN SeqsUpTo(LoneCandidates, MaxResults)
  ELSE {<<>>}

Op(w, name) == lastOp' = [lastOp EXCEPT ![w] = name]

\* Awaits can reject during the counted runs; the runs the scheduler starts
\* after them (runs = MaxRuns + 1) meet no failure.
Rejects == runs <= MaxRuns

\* Variant of a rejected await: the error is noted and the run carries on.
ThrowSwallowed(w, kind, from) ==
  /\ UNCHANGED pc
  /\ error' = [error EXCEPT ![w] = [kind |-> kind, from |-> from]]

\* A rejected await inside the try block of main(): control goes to catch.
\* The error carries its kind and the call that rejected.
Throw(w, kind, from) ==
  /\ Rejects
  /\ pc' = [pc EXCEPT ![w] = "catch"]
  /\ error' = [error EXCEPT ![w] = [kind |-> kind, from |-> from]]

Goto(w, label) ==
  /\ pc' = [pc EXCEPT ![w] = label]
  /\ UNCHANGED error

\* ------------------------------------------------------------------ Init
InitFrom(lists, stored) ==
  /\ locations \in lists
  /\ checkpoints \in stored
  /\ places = <<>>
  /\ pc = [w \in Workers |-> "idle"]
  /\ locs = [w \in Workers |-> <<>>]
  /\ checkpointId = [w \in Workers |-> 0]
  /\ processedCount = [w \in Workers |-> 0]
  /\ i = [w \in Workers |-> 1]
  /\ typeIdx = [w \in Workers |-> 1]
  /\ allPlaces = [w \in Workers |-> <<>>]
  /\ placeIdx = [w \in Workers |-> 1]
  /\ existingPlace = [w \in Workers |-> NoDocument]
  /\ placeDetails = [w \in Workers |-> NoDetails]
  /\ error = [w \in Workers |-> NoError]
  /\ runs = 0
  /\ cp0 = StoredCheckpoint
  /\ cpAtStart = [w \in Workers |-> 0]
  /\ completed = [w \in Workers |-> <<>>]
  /\ fullRuns = [k \in DOMAIN locations |-> 0]
  /\ handledTypes = [p \in PlaceIds |-> {}]
  /\ created = [p \in PlaceIds |-> 0]
  /\ alertCalls = [p \in PlaceIds |-> 0]
  /\ endNotes = [w \in Workers |-> 0]
  /\ lastNote = [w \in Workers |-> NoNote]
  /\ cpWrites = [w \in Workers |-> 0]
  /\ lastOp = [w \in Workers |-> "none"]
  /\ fetched = {}
  /\ returned = [w \in Workers |-> {}]
  /\ passed = [w \in Workers |-> <<>>]
  /\ undelivered = [w \in Workers |-> {}]

\* The state before the first run, over the collections listed above.
Init == InitFrom(LocationLists, InitialCheckpoints)

\* --------------------------------------------------------------- actions
\* main() is entered: the locals of the run are fresh.
Enter(w) ==
  /\ pc[w] = "idle"
  /\ pc' = [pc EXCEPT ![w] = "connect"]
  /\ locs' = [locs EXCEPT ![w] = <<>>]
  /\ checkpointId' = [checkpointId EXCEPT ![w] = 0]
  /\ processedCount' = [processedCount EXCEPT ![w] = 0]
  /\ i' = [i EXCEPT ![w] = 1]
  /\ typeIdx' = [typeIdx EXCEPT ![w] = 1]
  /\ allPlaces' = [allPlaces EXCEPT ![w] = <<>>]
  /\ placeIdx' = [placeIdx EXCEPT ![w] = 1]
  /\ existingPlace' = [existingPlace EXCEPT ![w] = NoDocument]
  /\ placeDetails' = [placeDetails EXCEPT ![w] = NoDetails]
  /\ error' = [error EXCEPT ![w] = NoError]
  /\ cpAtStart' = [cpAtStart EXCEPT ![w] = 0]
  /\ completed' = [completed EXCEPT ![w] = <<>>]
  /\ endNotes' = [endNotes EXCEPT ![w] = 0]
  /\ lastNote' = [lastNote EXCEPT ![w] = NoNote]
  /\ cpWrites' = [cpWrites EXCEPT ![w] = 0]
  /\ Op(w, "launch")
  /\ UNCHANGED <<locations, checkpoints, places, cp0, fullRuns, handledTypes,
                 created, alertCalls>>
  /\ returned' = [returned EXCEPT ![w] = {}]
  /\ passed' = [passed EXCEPT ![w] = <<>>]
  /\ undelivered' = [undelivered EXCEPT ![w] = {}]
  /\ UNCHANGED fetched

\* The process is started (by hand or by a scheduler): main() is entered.
Launch(w) ==
  /\ runs < MaxRuns
  /\ runs' = runs + 1
  /\ Enter(w)

\* main, line 202: await mongoose.connect(DB_URI)
Connect(w) ==
  /\ pc[w] = "connect"
  /\ \/ Goto(w, "readLocations")
     \/ Throw(w, "StoreUnavailable", "connect")
  /\ Op(w, "connect")
  /\ UNCHANGED <<locations, checkpoints, places, locs, checkpointId,
                 processedCount, i, typeIdx, allPlaces, placeIdx, existingPlace,
                 placeDetails>>
  /\ UNCHANGED <<runs, cp0, cpAtStart, completed, fullRuns, handledTypes,
                 created, alertCalls, endNotes, lastNote, cpWrites>>
  /\ UNCHANGED <<fetched, returned, passed, undelivered>>

\* readLocations: Location.find({}) in the order the collection yields.
ReadLocations(w) ==
  /\ pc[w] = "readLocations"
  /\ \/ /\ locs' = [locs EXCEPT ![w] = locations]
        /\ Goto(w, "readCheckpoint")
     \/ /\ UNCHANGED locs
        /\ Throw(w, "StoreUnavailable", "readLocations")
  /\ Op(w, "readLocations")
  /\ UNCHANGED <<locations, checkpoints, places, checkpointId,
                 processedCount, i, typeIdx, allPlaces, placeIdx, existingPlace,
                 placeDetails>>
  /\ UNCHANGED <<runs, cp0, cpAtStart, completed, fullRuns, handledTypes,
                 created, alertCalls, endNotes, lastNote, cpWrites>>
  /\ UNCHANGED <<fetched, returned, passed, undelivered>>

\* readCheckpoint: findOne, create the default document when there is none.
ReadCheckpoint(w) ==
  /\ pc[w] = "readCheckpoint"
  /\ \/ /\ checkpoints' = IF checkpoints = <<>> THEN <<DefaultCheckpoint>>
                          ELSE checkpoints
        /\ checkpointId' = [checkpointId EXCEPT ![w] = StoredCheckpoint]
        /\ cpAtStart' = [cpAtStart EXCEPT ![w] = StoredCheckpoint]
        /\ Goto(w, "loop")
     \/ /\ UNCHANGED <<checkpoints, checkpointId, cpAtStart>>
        /\ Throw(w, "StoreUnavailable", "readCheckpoint")
  /\ Op(w, "readCheckpoint")
  /\ UNCHANGED <<locations, places, locs, processedCount, i, typeIdx,
                 allPlaces, placeIdx, existingPlace, placeDetails>>
  /\ UNCHANGED <<runs, cp0, completed, fullRuns, handledTypes,
                 created, alertCalls, endNotes, lastNote, cpWrites>>
  /\ UNCHANGED <<fetched, returned, passed, undelivered>>

\* main, line 209: the loop condition is false, control leaves the loop.
LoopExit(w) ==
  /\ pc[w] = "loop"
  /\ ~LoopContinues(i[w], locs[w], processedCount[w])
  /\ Goto(w, "writeCheckpoint")
  /\ Op(w, "loop")
  /\ UNCHANGED <<locations, checkpoints, places, locs, checkpointId,
                 processedCount, i, typeIdx, allPlaces, placeIdx, existingPlace,
                 placeDetails>>
  /\ UNCHANGED <<runs, cp0, cpAtStart, completed, fullRuns, handledTypes,
                 created, alertCalls, endNotes, lastNote, cpWrites>>
  /\ UNCHANGED <<fetched, returned, passed, undelivered>>

\* main, line 212: the location is at or below the cursor, continue.
LoopSkip(w) ==
  /\ pc[w] = "loop"
  /\ LoopContinues(i[w], locs[w], processedCount[w])
  /\ AlreadyDone(locs[w][i[w]], checkpointId[w])
  /\ i' = [i EXCEPT ![w] = @ + 1]
  /\ Goto(w, "loop")
  /\ Op(w, "loop")
  /\ UNCHANGED <<locations, checkpoints, places, locs, checkpointId,
                 processedCount, typeIdx, allPlaces, placeIdx, existingPlace,
                 placeDetails>>
  /\ UNCHANGED <<runs, cp0, cpAtStart, completed, fullRuns, handledTypes,
                 created, alertCalls, endNotes, lastNote, cpWrites>>
  /\ UNCHANGED <<fetched, returned, passed, undelivered>>

\* Variant of the loop body: the Set is shared by all locations of the run.
LoopEnterStale(w) ==
  /\ pc[w] = "loop"
  /\ LoopContinues(i[w], locs[w], processedCount[w])
  /\ ~AlreadyDone(locs[w][i[w]], checkpointId[w])
  /\ UNCHANGED allPlaces
  /\ typeIdx' = [typeIdx EXCEPT ![w] = 1]
  /\ Goto(w, "search")
  /\ Op(w, "loop")
  /\ UNCHANGED <<locations, checkpoints, places, locs, checkpointId,
                 processedCount, i, placeIdx, existingPlace, placeDetails>>
  /\ UNCHANGED <<runs, cp0, cpAtStart, completed, fullRuns, handledTypes,
                 created, alertCalls, endNotes, lastNote, cpWrites>>
  /\ returned' = [returned EXCEPT ![w] = {}]
  /\ passed' = [passed EXCEPT ![w] = <<>>]
  /\ UNCHANGED <<fetched, undelivered>>

\* main, line 214: the location is taken up with a fresh Set.
LoopEnter(w) ==
  /\ pc[w] = "loop"
  /\ LoopContinues(i[w], locs[w], processedCount[w])
  /\ ~AlreadyDone(locs[w][i[w]], checkpointId[w])
  /\ allPlaces' = [allPlaces EXCEPT ![w] = <<>>]
  /\ typeIdx' = [typeIdx EXCEPT ![w] = 1]
  /\ Goto(w, "search")
  /\ Op(w, "loop")
  /\ UNCHANGED <<locations, checkpoints, places, locs, checkpointId,
                 processedCount, i, placeIdx, existingPlace, placeDetails>>
  /\ UNCHANGED <<runs, cp0, cpAtStart, completed, fullRuns, handledTypes,
                 created, alertCalls, endNotes, lastNote, cpWrites>>
  /\ returned' = [returned EXCEPT ![w] = {}]
  /\ passed' = [passed EXCEPT ![w] = <<>>]
  /\ UNCHANGED <<fetched, undelivered>>

\* main, lines 216-219: one nearbySearch and the adds of what it returned.
NearbySearch(w) ==
  /\ pc[w] = "search"
  /\ \/ \E found \in SearchResults(locs[w][i[w]]) :
          /\ allPlaces' = [allPlaces EXCEPT ![w] = AddAll(@, found)]
          /\ returned' = [returned EXCEPT ![w] = @ \cup Range(found)]
          /\ IF typeIdx[w] < Len(PLACE_TYPES)
             THEN /\ typeIdx' = [typeIdx EXCEPT ![w] = @ + 1]
                  /\ UNCHANGED placeIdx
                  /\ Goto(w, "search")
             ELSE /\ UNCHANGED typeIdx
                  /\ placeIdx' = [placeIdx EXCEPT ![w] = 1]
                  /\ Goto(w, "persist")
     \/ /\ UNCHANGED <<allPlaces, typeIdx, placeIdx, returned>>
        /\ Throw(w, "DirectoryUnavailable", "nearbySearch")
  /\ Op(w, "search")
  /\ UNCHANGED <<locations, checkpoints, places, locs, checkpointId,
                 processedCount, i, existingPlace, placeDetails>>
  /\ UNCHANGED <<runs, cp0, cpAtStart, completed, fullRuns, handledTypes,
                 created, alertCalls, endNotes, lastNote, cpWrites>>
  /\ UNCHANGED <<fetched, passed, undelivered>>

\* main, line 222: the candidate the for-of loop is at.
CurrentPlace(w) == Parse(allPlaces[w][placeIdx[w]])

\* processPlace returned: the for-of loop moves to the next string.
Handled(w) ==
  /\ placeIdx' = [placeIdx EXCEPT ![w] = @ + 1]
  /\ handledTypes' = [handledTypes EXCEPT ![CurrentPlace(w).id] =
                        @ \cup Range(CurrentPlace(w).types)]
  /\ Goto(w, "persist")

\* processPlace, line 167: Place.findOne({ id: place.id })
FindOne(w) ==
  /\ pc[w] = "persist"
  /\ placeIdx[w] <= Len(allPlaces[w])
  /\ \/ LET k == FindOneIndex(CurrentPlace(w).id) IN
          /\ existingPlace' = [existingPlace EXCEPT ![w] =
                 IF k = 0 THEN NoDocument
                 ELSE [index |-> k, types |-> places[k].types]]
          /\ Goto(w, IF k = 0 THEN "details" ELSE "merge")
     \/ /\ UNCHANGED existingPlace
        /\ Throw(w, "StoreUnavailable", "findOne")
  /\ Op(w, "findOne")
  /\ UNCHANGED <<locations, checkpoints, places, locs, checkpointId,
                 processedCount, i, typeIdx, allPlaces, placeIdx, placeDetails>>
  /\ UNCHANGED <<runs, cp0, cpAtStart, completed, fullRuns, handledTypes,
                 created, alertCalls, endNotes, lastNote, cpWrites>>
  /\ passed' = [passed EXCEPT ![w] = Append(@, CurrentPlace(w))]
  /\ UNCHANGED <<fetched, returned, undelivered>>

\* Variant of the merge: the new types replace the stored ones.
MergedTypesOverwrite(existingTypes, newTypes) == newTypes

\* processPlace, line 172: the array the merge path assigns.
MergedTypes(existingTypes, newTypes) == Dedup(existingTypes \o newTypes)

\* processPlace, lines 170-174: the merge path.
MergeTypes(w) ==
  /\ pc[w] = "merge"
  /\ LET newTypes == FilterNew(CurrentPlace(w).types, existingPlace[w].types) IN
       IF Len(newTypes) > 0
       THEN \/ /\ places' = [places EXCEPT ![existingPlace[w].index].types =
                               MergedTypes(existingPlace[w].types, newTypes)]
               /\ Handled(w)
               /\ Op(w, "save")
            \/ /\ UNCHANGED <<places, placeIdx, handledTypes>>
               /\ Throw(w, "StoreUnavailable", "save")
               /\ Op(w, "save")
       ELSE /\ UNCHANGED places
            /\ Handled(w)
            /\ Op(w, "merge")
  /\ UNCHANGED <<locations, checkpoints, locs, checkpointId,
                 processedCount, i, typeIdx, allPlaces, existingPlace,
                 placeDetails>>
  /\ UNCHANGED <<runs, cp0, cpAtStart, completed, fullRuns,
                 created, alertCalls, endNotes, lastNote, cpWrites>>
  /\ UNCHANGED <<fetched, returned, passed, undelivered>>

\* getPlaceDetails, called from processPlace line 176.
GetPlaceDetails(w) ==
  /\ pc[w] = "details"
  /\ \/ \E details \in DetailsResponses :
          /\ placeDetails' = [placeDetails EXCEPT ![w] = details]
          /\ Goto(w, "create")
     \/ /\ UNCHANGED placeDetails
        /\ Throw(w, "DirectoryUnavailable", "getPlaceDetails")
  /\ Op(w, "details")
  /\ UNCHANGED <<locations, checkpoints, places, locs, checkpointId,
                 processedCount, i, typeIdx, allPlaces, placeIdx, existingPlace>>
  /\ UNCHANGED <<runs, cp0, cpAtStart, completed, fullRuns, handledTypes,
                 created, alertCalls, endNotes, lastNote, cpWrites>>
  /\ fetched' = fetched \cup {CurrentPlace(w).id}
  /\ UNCHANGED <<returned, passed, undelivered>>

\* processPlace, lines 178-185: the document built for a new place.
NewPlace(place, details, location) ==
  [id |-> place.id,
   googleMapsUri |-> place.googleMapsUri,
   types |-> place.types,
   internationalPhoneNumber |-> details.internationalPhoneNumber,
   websiteUri |-> details.websiteUri,
   locationId |-> location.id]

\* Variant of the schema: id carries no unique index.
DuplicateKeyUnenforced(id) == FALSE

\* placeSchema, line 10: the unique index on id rejects a second document.
DuplicateKey(id) == \E k \in DOMAIN places : places[k].id = id

\* processPlace, lines 187-189: newPlace.save() and the website test.
NewPlaceSave(w) ==
  /\ pc[w] = "create"
  /\ \/ /\ ~DuplicateKey(CurrentPlace(w).id)
        /\ places' = Append(places,
                       NewPlace(CurrentPlace(w), placeDetails[w], locs[w][i[w]]))
        /\ created' = [created EXCEPT ![CurrentPlace(w).id] = @ + 1]
        /\ IF LacksWebsite(placeDetails[w])
           THEN /\ Goto(w, "alert")
                /\ UNCHANGED <<placeIdx, handledTypes>>
           ELSE Handled(w)
     \/ /\ DuplicateKey(CurrentPlace(w).id)
        /\ UNCHANGED <<places, created, placeIdx, handledTypes>>
        /\ Throw(w, "DuplicateKey", "save")
     \/ /\ UNCHANGED <<places, created, placeIdx, handledTypes>>
        /\ Throw(w, "StoreUnavailable", "save")
  /\ Op(w, "save")
  /\ UNCHANGED <<locations, checkpoints, locs, checkpointId,
                 processedCount, i, typeIdx, allPlaces, existingPlace,
                 placeDetails>>
  /\ UNCHANGED <<runs, cp0, cpAtStart, completed, fullRuns,
                 alertCalls, endNotes, lastNote, cpWrites>>
  /\ UNCHANGED <<fetched, returned, passed, undelivered>>

\* Variant of sendDiscordAlert: a rejected post is thrown on to the caller.
SendDiscordAlertRethrow(w) ==
  /\ pc[w] = "alert"
  /\ alertCalls' = [alertCalls EXCEPT ![CurrentPlace(w).id] = @ + 1]
  /\ \/ /\ Handled(w)
        /\ UNCHANGED undelivered
     \/ /\ undelivered' = [undelivered EXCEPT ![w] = @ \cup {CurrentPlace(w).id}]
        /\ UNCHANGED <<placeIdx, handledTypes>>
        /\ Throw(w, "DeliveryFailure", "sendDiscordAlert")
  /\ Op(w, "alert")
  /\ UNCHANGED <<locations, checkpoints, places, locs, checkpointId,
                 processedCount, i, typeIdx, allPlaces, existingPlace,
                 placeDetails>>
  /\ UNCHANGED <<runs, cp0, cpAtStart, completed, fullRuns,
                 created, endNotes, lastNote, cpWrites>>
  /\ UNCHANGED <<fetched, returned, passed>>

\* sendDiscordAlert: the post may be rejected, the rejection is caught and
\* logged, so the caller continues either way.
SendDiscordAlert(w) ==
  /\ pc[w] = "alert"
  /\ alertCalls' = [alertCalls EXCEPT ![CurrentPlace(w).id] = @ + 1]
  /\ Handled(w)
  /\ Op(w, "alert")
  /\ UNCHANGED <<locations, checkpoints, places, locs, checkpointId,
                 processedCount, i, typeIdx, allPlaces, existingPlace,
                 placeDetails>>
  /\ UNCHANGED <<runs, cp0, cpAtStart, completed, fullRuns,
                 created, endNotes, lastNote, cpWrites>>
  /\ \/ UNCHANGED undelivered
     \/ undelivered' = [undelivered EXCEPT ![w] = @ \cup {CurrentPlace(w).id}]
  /\ UNCHANGED <<fetched, returned, passed>>

\* Variant of lines 226-227: the count is raised, the cursor is left alone.
CompleteLocationCursorKept(w) ==
  /\ pc[w] = "persist"
  /\ placeIdx[w] > Len(allPlaces[w])
  /\ UNCHANGED checkpointId
  /\ processedCount' = [processedCount EXCEPT ![w] = @ + 1]
  /\ i' = [i EXCEPT ![w] = @ + 1]
  /\ completed' = [completed EXCEPT ![w] = Append(@, i[w])]
  /\ fullRuns' = [fullRuns EXCEPT ![i[w]] = @ + 1]
  /\ Goto(w, "loop")
  /\ Op(w, "complete")
  /\ UNCHANGED <<locations, checkpoints, places, locs, typeIdx, allPlaces,
                 placeIdx, existingPlace, placeDetails>>
  /\ UNCHANGED <<runs, cp0, cpAtStart, handledTypes,
                 created, alertCalls, endNotes, lastNote, cpWrites>>
  /\ UNCHANGED <<fetched, returned, passed, undelivered>>

\* main, lines 226-227: every string of the Set went through processPlace.
CompleteLocation(w) ==
  /\ pc[w] = "persist"
  /\ placeIdx[w] > Len(allPlaces[w])
  /\ checkpointId' = [checkpointId EXCEPT ![w] = locs[w][i[w]].id]
  /\ processedCount' = [processedCount EXCEPT ![w] = @ + 1]
  /\ i' = [i EXCEPT ![w] = @ + 1]
  /\ completed' = [completed EXCEPT ![w] = Append(@, i[w])]
  /\ fullRuns' = [fullRuns EXCEPT ![i[w]] = @ + 1]
  /\ Goto(w, "loop")
  /\ Op(w, "complete")
  /\ UNCHANGED <<locations, checkpoints, places, locs, typeIdx, allPlaces,
                 placeIdx, existingPlace, placeDetails>>
  /\ UNCHANGED <<runs, cp0, cpAtStart, handledTypes,
                 created, alertCalls, endNotes, lastNote, cpWrites>>
  /\ UNCHANGED <<fetched, returned, passed, undelivered>>

\* Variants of the write: an existing document is left as it is; the stored
\* value is only ever raised.
WrittenCheckpointKept(stored, id) ==
  IF stored = <<>> THEN <<[lastProcessedLocationId |-> id]>> ELSE stored
WrittenCheckpointMax(stored, id) ==
  IF stored = <<>> THEN <<[lastProcessedLocationId |-> id]>>
  ELSE IF stored[1].lastProcessedLocationId >= id THEN stored
       ELSE [stored EXCEPT ![1].lastProcessedLocationId = id]

\* writeCheckpoint: the stored value is replaced by the argument.
WrittenCheckpoint(stored, id) ==
  IF stored = <<>> THEN <<[lastProcessedLocationId |-> id]>>
  ELSE [stored EXCEPT ![1].lastProcessedLocationId = id]

\* main, line 230: await writeCheckpoint(checkpointId)
WriteCheckpoint(w) ==
  /\ pc[w] = "writeCheckpoint"
  /\ \/ /\ checkpoints' = WrittenCheckpoint(checkpoints, checkpointId[w])
        /\ cpWrites' = [cpWrites EXCEPT ![w] = @ + 1]
        /\ Goto(w, "notify")
     \/ /\ UNCHANGED <<checkpoints, cpWrites>>
        /\ Throw(w, "StoreUnavailable", "writeCheckpoint")
  /\ Op(w, "writeCheckpoint")
  /\ UNCHANGED <<locations, places, locs, checkpointId,
                 processedCount, i, typeIdx, allPlaces, placeIdx, existingPlace,
                 placeDetails>>
  /\ UNCHANGED <<runs, cp0, cpAtStart, completed, fullRuns, handledTypes,
                 created, alertCalls, endNotes, lastNote>>
  /\ UNCHANGED <<fetched, returned, passed, undelivered>>

\* sendEndNotification: one post; a rejected post is caught and logged.
SendEndNotification(w, status, count, message) ==
  /\ endNotes' = [endNotes EXCEPT ![w] = @ + 1]
  /\ lastNote' = [lastNote EXCEPT ![w] =
                    [status |-> status, count |-> count, message |-> message]]
  /\ Op(w, "endNote")

\* main, line 231: the notification of the try block.
NotifySuccess(w) ==
  /\ pc[w] = "notify"
  /\ SendEndNotification(w, "Succes", processedCount[w], NoError)
  /\ Goto(w, "finally")
  /\ UNCHANGED <<locations, checkpoints, places, locs, checkpointId,
                 processedCount, i, typeIdx, allPlaces, placeIdx, existingPlace,
                 placeDetails>>
  /\ UNCHANGED <<runs, cp0, cpAtStart, completed, fullRuns, handledTypes,
                 created, alertCalls, cpWrites>>
  /\ UNCHANGED <<fetched, returned, passed, undelivered>>

\* Variant of the catch block: the error is logged, no notification is sent.
CatchSilent(w) ==
  /\ pc[w] = "catch"
  /\ Goto(w, "finally")
  /\ Op(w, "catch")
  /\ UNCHANGED <<locations, checkpoints, places, locs, checkpointId,
                 processedCount, i, typeIdx, allPlaces, placeIdx, existingPlace,
                 placeDetails>>
  /\ UNCHANGED <<runs, cp0, cpAtStart, completed, fullRuns, handledTypes,
                 created, alertCalls, endNotes, lastNote, cpWrites>>
  /\ UNCHANGED <<fetched, returned, passed, undelivered>>

\* main, lines 232-234: the catch block.
Catch(w) ==
  /\ pc[w] = "catch"
  /\ SendEndNotification(w, "Echec", 0, error[w])
  /\ Goto(w, "finally")
  /\ UNCHANGED <<locations, checkpoints, places, locs, checkpointId,
                 processedCount, i, typeIdx, allPlaces, placeIdx, existingPlace,
                 placeDetails>>
  /\ UNCHANGED <<runs, cp0, cpAtStart, completed, fullRuns, handledTypes,
                 created, alertCalls, cpWrites>>
  /\ UNCHANGED <<fetched, returned, passed, undelivered>>

\* main, lines 235-237: mongoose.disconnect(), then the process ends.
Finally(w) ==
  /\ pc[w] = "finally"
  /\ Goto(w, "idle")
  /\ Op(w, "disconnect")
  /\ UNCHANGED <<locations, checkpoints, places, locs, checkpointId,
                 processedCount, i, typeIdx, allPlaces, placeIdx, existingPlace,
                 placeDetails>>
  /\ UNCHANGED <<runs, cp0, cpAtStart, completed, fullRuns, handledTypes,
                 created, alertCalls, endNotes, lastNote, cpWrites>>
  /\ UNCHANGED <<fetched, returned, passed, undelivered>>

\* ------------------------------------------------------- specifications
\* The steps of a run that main() has entered.
Step(w) ==
  \/ Connect(w)
  \/ ReadLocations(w)
  \/ ReadCheckpoint(w)
  \/ LoopExit(w)
  \/ LoopSkip(w)
  \/ LoopEnter(w)
  \/ NearbySearch(w)
  \/ FindOne(w)
  \/ MergeTypes(w)
  \/ GetPlaceDetails(w)
  \/ NewPlaceSave(w)
  \/ SendDiscordAlert(w)
  \/ CompleteLocation(w)
  \/ WriteCheckpoint(w)
  \/ NotifySuccess(w)
  \/ Catch(w)
  \/ Finally(w)

\* One invocation of the job, from its start to its end.
Run(w) == Launch(w) \/ Step(w)

\* One instance of the job at a time, re-invoked after it has ended.
Next == \E w \in Solo : Run(w)

Spec == Init /\ [][Next]_vars

\* ---------------------------------------------------- overlapping runs
\* Nothing in main() keeps a second process from being started while the
\* periodic one is running: worker 2 is such a process, started once at any
\* time, and its awaits interleave with those of the periodic runs.
OverlapLists == {<<LoneLocation>>, LongList}

\* A fresh deployment: the Checkpoint collection is empty.
InitOverlap == InitFrom(OverlapLists, {<<>>})

\* The second process is started; it has not run before.
LaunchOverlap(w) ==
  /\ lastOp[w] = "none"
  /\ Enter(w)
  /\ UNCHANGED runs

NextOverlap ==
  \/ Next
  \/ \E w \in Workers \ Solo : LaunchOverlap(w) \/ Step(w)

SpecOverlap == InitOverlap /\ [][NextOverlap]_vars

\* ------------------------------------------------- periodic re-invocation
\* The scheduler keeps starting main() after it has ended, over an ascending
\* list and a stored checkpoint that is 0 or an id of the list. The first
\* MaxRuns runs may fail at any await; the runs after them do not.
AscendingLists == {<<Loc(1)>>, <<Loc(1), LoneLocation>>, ExampleList, LongList}

InitLive ==
  /\ InitFrom(AscendingLists, InitialCheckpoints)
  /\ StoredCheckpoint \in {0} \cup {locations[k].id : k \in DOMAIN locations}

\* A run started after the counted ones: runs stays at MaxRuns + 1.
Relaunch(w) ==
  /\ runs >= MaxRuns
  /\ runs' = MaxRuns + 1
  /\ Enter(w)

\* No await rejects any more.
FailuresStopped == ~Rejects

NextLive == \E w \in Solo : Relaunch(w) \/ Run(w)

\* Every await resolves or rejects, and the scheduler starts the next run.
SpecLive == InitLive /\ [][NextLive]_vars /\ WF_vars(NextLive)

\* ----------------------------------------------------------- properties
Last(s) == s[Len(s)]

\* Ids of the list positions the run of w has fully processed, in order.
CompletedIds(w) == [k \in DOMAIN completed[w] |-> locs[w][completed[w][k]].id]

\* The run of w has ended (the process has exited).
Ended(w) == pc[w] = "idle" /\ lastOp[w] = "disconnect"

\* The run of w was aborted by a directory or store call made for a location.
FailedInLocation(w) ==
  error[w].from \in {"nearbySearch", "getPlaceDetails", "save", "findOne"}

\* C1: a run that completed locations L1..Lk and then failed inside the next
\* location leaves the persisted checkpoint equal to Lk's id.
C1_NoLostUpdates ==
  \A w \in Solo :
    (Ended(w) /\ FailedInLocation(w) /\ completed[w] # <<>>)
      => StoredCheckpoint = Last(CompletedIds(w))

\* C2: over any sequence of runs, no location of the list is fully processed
\* in more than one run.
C2_ProcessedInOneRunOnly ==
  \A k \in DOMAIN fullRuns : fullRuns[k] <= 1

\* C3: the persisted checkpoint value never decreases, and every value a run
\* writes is at least the value the run read at its start.
C3_CheckpointMonotonic ==
  [][ /\ StoredCheckpoint' >= StoredCheckpoint
      /\ \A w \in Solo :
           cpWrites'[w] > cpWrites[w] => StoredCheckpoint' >= cpAtStart[w] ]_vars

\* C3 witness: a run has written a checkpoint above the value it read.
C3_Witness ==
  \E w \in Solo : cpWrites[w] = 1 /\ StoredCheckpoint > cpAtStart[w] /\ runs = 2

\* C4: every location whose id is above the initial checkpoint and at most the
\* persisted checkpoint has been fully processed in some run.
C4_NoLocationSkipped ==
  \A k \in DOMAIN locations :
    (cp0 < locations[k].id /\ locations[k].id <= StoredCheckpoint)
      => \E j \in DOMAIN locations :
           locations[j].id = locations[k].id /\ fullRuns[j] >= 1

\* List positions whose id is above the checkpoint the run of w read.
EligibleAtStart(w) == { k \in DOMAIN locs[w] : locs[w][k].id > cpAtStart[w] }

\* locationSchema, line 28: the unique index on id.
DistinctIds(list) ==
  \A j, k \in DOMAIN list : list[j].id = list[k].id => j = k

C6_CapEnforcement ==
  \A w \in Solo :
    /\ Len(completed[w]) <= maxProcessed
    /\ (pc[w] = "notify" /\ Cardinality(EligibleAtStart(w)) > maxProcessed)
         => /\ Len(completed[w]) = maxProcessed
            /\ StoredCheckpoint = CompletedIds(w)[maxProcessed]
            /\ \A k \in EligibleAtStart(w) \ Range(completed[w]) :
                 locs[w][k].id > StoredCheckpoint

\* Documents of the Place collection with the given external id.
Records(p) == { k \in DOMAIN places : places[k].id = p }

\* C7: sendDiscordAlert is called for a place exactly when processPlace has
\* created its document from details without a website: at most one call per
\* place id, none without such a document, and for such a document the call
\* has been made or is the very next step of the creating run.
C7_AlertOncePerPlace ==
  \A p \in PlaceIds :
    /\ alertCalls[p] <= 1
    /\ alertCalls[p] <= created[p]
    /\ alertCalls[p] = 1
         => \E k \in Records(p) : places[k].websiteUri = None
    /\ (\E k \in Records(p) : places[k].websiteUri = None)
         => \/ alertCalls[p] = 1
            \/ \E w \in Solo : pc[w] = "alert" /\ CurrentPlace(w).id = p

\* C7 witness: a place was alerted once and merged afterwards, in a later run.
C7_Witness ==
  /\ alertCalls["p1"] = 1
  /\ Cardinality(handledTypes["p1"]) = 2
  /\ runs = 2
  /\ \E w \in Solo : lastOp[w] = "save" /\ pc[w] = "persist"
                        /\ existingPlace[w].index # 0

\* C8: for every place id processPlace has finished a candidate of, the store
\* holds exactly one document, and its types are the union of the types of
\* all those candidates; no id ever has two documents.
C8_IdempotentUpsert ==
  \A p \in PlaceIds :
    /\ Cardinality(Records(p)) <= 1
    /\ handledTypes[p] # {}
         => /\ Cardinality(Records(p)) = 1
            /\ \A k \in Records(p) : Range(places[k].types) = handledTypes[p]

\* C8 witness: a document created with one type has been merged to two.
C8_Witness ==
  /\ Cardinality(handledTypes["p1"]) = 2
  /\ \E k \in Records("p1") : places[k].types = <<"store", "bar">>
  /\ \E w \in Solo : lastOp[w] = "save" /\ pc[w] = "persist"

\* C9: sendEndNotification is called exactly once per run, on every path, and
\* nothing else of the run happens after it: before the call the count is 0,
\* from the call on it is 1 and only the disconnect follows.
C9_OneEndNotification ==
  \A w \in Solo :
    /\ endNotes[w] <= 1
    /\ pc[w] \notin {"idle", "finally"} => endNotes[w] = 0
    /\ pc[w] = "finally" => endNotes[w] = 1 /\ lastOp[w] = "endNote"
    /\ Ended(w) => endNotes[w] = 1
    /\ endNotes[w] = 1 => lastOp[w] \in {"endNote", "disconnect"}

\* C9 witness: a run that failed in the checkpoint write has ended with its
\* one notification sent.
C9_Witness ==
  \E w \in Solo :
    /\ Ended(w) /\ endNotes[w] = 1
    /\ error[w].from = "writeCheckpoint" /\ lastNote[w].status = "Echec"

\* C10: once nearbySearch, getPlaceDetails or a save has thrown for a
\* location, the run does nothing but report: the checkpoint is not written
\* (it keeps the value read at the start, below the location's id), no other
\* location is taken up, and the notification is Failure with the error.
C10_AbortWithoutCheckpoint ==
  \A w \in Solo :
    error[w].from \in {"nearbySearch", "getPlaceDetails", "save"}
      => /\ cpWrites[w] = 0
         /\ StoredCheckpoint = cpAtStart[w]
         /\ StoredCheckpoint < locs[w][i[w]].id
         /\ \/ pc[w] = "catch" /\ lastOp[w] \in {"search", "details", "save"}
            \/ pc[w] = "finally" /\ lastOp[w] = "endNote"
            \/ pc[w] = "idle" /\ lastOp[w] = "disconnect"
         /\ pc[w] # "catch"
              => lastNote[w] = [status |-> "Echec", count |-> 0,
                                message |-> error[w]]

\* C10 witness: a run completed one location, failed in the details fetch of
\* the next and has ended.
C10_Witness ==
  \E w \in Solo :
    /\ Ended(w) /\ error[w].from = "getPlaceDetails"
    /\ Len(completed[w]) = 1 /\ i[w] = 2

\* C11 as stated: getPlaceDetails is called at most once per place id, so no
\* run stands before the call for an id it was already called for.
C11_DetailsAtMostOnce ==
  \A w \in Solo :
    pc[w] = "details" => CurrentPlace(w).id \notin fetched

\* C11 amended: getPlaceDetails is called for a place id only while the store
\* holds no document for it; every document was built from a fetch and no id
\* has two created documents, so a second fetch of an id happens only after a
\* run whose details fetch or create save for that id failed.
C11_DetailsOnlyWithoutRecord ==
  /\ \A w \in Solo :
       pc[w] = "details" => Records(CurrentPlace(w).id) = {}
  /\ \A p \in PlaceIds :
       /\ created[p] <= 1
       /\ Records(p) # {} => p \in fetched

\* C11 witness: a later run stands before a second fetch of an id whose
\* first fetch did not end in a stored document.
C11_Witness ==
  \E w \in Solo :
    /\ pc[w] = "details" /\ runs = 2
    /\ CurrentPlace(w).id \in fetched
    /\ Records(CurrentPlace(w).id) = {}

\* The fields of a document that processPlace sets at creation only.
CreationFields(doc) ==
  <<doc.id, doc.googleMapsUri, doc.internationalPhoneNumber, doc.websiteUri,
    doc.locationId>>

\* C12: no step deletes a document or changes its phone number, website,
\* location id or map link, and the set of its types only grows.
C12_RecordImmutable ==
  [][ \A k \in DOMAIN places :
        /\ k \in DOMAIN places'
        /\ CreationFields(places'[k]) = CreationFields(places[k])
        /\ Range(places[k].types) \subseteq Range(places'[k].types) ]_vars

\* C12 witness: a document created at one location has been merged while
\* another location was processed.
C12_Witness ==
  \E w \in Solo :
    /\ pc[w] = "persist" /\ lastOp[w] = "save" /\ existingPlace[w].index # 0
    /\ places[existingPlace[w].index].locationId # locs[w][i[w]].id
    /\ Len(places[existingPlace[w].index].types) = 2

\* The checkpoint value a run that leaves the loop is to persist.
LastCompletedId(w) ==
  IF completed[w] = <<>> THEN cpAtStart[w] ELSE Last(CompletedIds(w))

\* C13: a Success notification is sent only after writeCheckpoint has stored
\* the id of the last location completed in the run (the start value when
\* there was none), it reports the number of locations the run completed, and
\* a run whose writeCheckpoint threw reports Failure.
C13_SuccessAfterCheckpoint ==
  \A w \in Solo :
    /\ lastNote[w].status = "Succes"
         => /\ cpWrites[w] = 1
            /\ StoredCheckpoint = LastCompletedId(w)
            /\ lastNote[w].count = Len(completed[w])
            /\ error[w] = NoError
    /\ pc[w] = "notify"
         => cpWrites[w] = 1 /\ StoredCheckpoint = LastCompletedId(w)
    /\ (error[w].from = "writeCheckpoint" /\ endNotes[w] = 1)
         => lastNote[w].status = "Echec" /\ cpWrites[w] = 0

\* C13 witness: a run that completed two locations has reported Success.
C13_Witness ==
  \E w \in Solo :
    /\ pc[w] = "finally" /\ lastNote[w].status = "Succes"
    /\ lastNote[w].count = 2 /\ StoredCheckpoint = 2 /\ cpAtStart[w] = 0

\* The awaits of processPlace.
InProcessPlace(w) == pc[w] \in {"persist", "merge", "details", "create", "alert"}

\* C14: while the searches of a location run, no step reads or writes the
\* Place collection, fetches details or alerts, and the persist phase starts
\* only when the fourth search has returned; a run whose search failed never
\* changes the Place collection; the Set of a location starts empty.
C14_GatherThenPersist ==
  [][ \A w \in Solo :
        /\ pc[w] = "search"
             => /\ places' = places /\ alertCalls' = alertCalls
                /\ fetched' = fetched /\ passed'[w] = <<>>
                /\ lastOp'[w] = "search"
                /\ pc'[w] \in {"search", "persist", "catch"}
                /\ pc'[w] = "persist" => typeIdx[w] = 4
        /\ error[w].from = "nearbySearch" => places' = places
        /\ (pc[w] = "loop" /\ pc'[w] = "search")
             => allPlaces'[w] = <<>> /\ typeIdx'[w] = 1
        /\ (places' # places \/ fetched' # fetched \/ alertCalls' # alertCalls
               \/ passed'[w] \notin {passed[w], <<>>})
             => InProcessPlace(w) ]_vars

\* C14 witness: the last search of a location failed after earlier searches
\* had returned places, with documents of an earlier location in the store.
C14_Witness ==
  \E w \in Solo :
    /\ pc[w] = "catch" /\ error[w].from = "nearbySearch"
    /\ typeIdx[w] = 4 /\ allPlaces[w] # <<>> /\ places # <<>>

\* C15: within one location, no candidate is handed to processPlace twice and
\* only returned candidates are; when the location is completed, every
\* distinct candidate the searches returned was handed over, its id has
\* exactly one document whose types contain the candidate's and equal the
\* union of all handled types, and at most one alert; details are never
\* fetched for an id an earlier candidate of the same location had.
C15_ContentExactDedup ==
  \A w \in Solo :
    /\ \A j, k \in DOMAIN passed[w] : passed[w][j] = passed[w][k] => j = k
    /\ Range(passed[w]) \subseteq returned[w]
    /\ (pc[w] = "loop" /\ lastOp[w] = "complete")
         => /\ Range(passed[w]) = returned[w]
            /\ \A c \in returned[w] :
                 /\ Cardinality(Records(c.id)) = 1
                 /\ \A k \in Records(c.id) :
                      /\ Range(c.types) \subseteq Range(places[k].types)
                      /\ Range(places[k].types) = handledTypes[c.id]
                 /\ alertCalls[c.id] <= 1
    /\ pc[w] = "details"
         => \A j \in 1..(Len(passed[w]) - 1) :
              passed[w][j].id # CurrentPlace(w).id

\* C15 witness: a completed location whose searches returned two candidates
\* with the same id and different types; both were processed, into one
\* document with both types.
C15_Witness ==
  \E w \in Solo :
    /\ pc[w] = "loop" /\ lastOp[w] = "complete"
    /\ \E c, d \in returned[w] : c.id = d.id /\ c.types # d.types
    /\ Len(passed[w]) = 2 /\ passed[w][1].id = passed[w][2].id
    /\ \A k \in Records(passed[w][1].id) : Len(places[k].types) = 2

\* C16: a rejected alert post leaves the run where a delivered one does: the
\* document stays, processPlace returns and the loop goes on without an
\* error; no error of a run comes from sendDiscordAlert, and no place id is
\* ever alerted a second time.
C16_AlertFailureSwallowed ==
  [][ \A w \in Solo :
        /\ (pc[w] = "alert" /\ undelivered'[w] # undelivered[w])
             => /\ pc'[w] = "persist" /\ error'[w] = NoError
                /\ places' = places
                /\ Records(CurrentPlace(w).id) # {}
                /\ placeIdx'[w] = placeIdx[w] + 1
        /\ error'[w].from # "sendDiscordAlert"
        /\ \A p \in undelivered'[w] : alertCalls'[p] = 1 /\ Records(p) # {}
        /\ \A p \in PlaceIds : alertCalls'[p] <= 1 ]_vars

\* C16 witness: a run in which an alert post was rejected has advanced the
\* checkpoint and reported Success.
C16_Witness ==
  \E w \in Solo :
    /\ pc[w] = "finally" /\ lastNote[w].status = "Succes"
    /\ undelivered[w] # {} /\ StoredCheckpoint > cpAtStart[w]

\* C18: on the merge path, a candidate whose types are all in the found
\* document causes no save: the step cannot fail and the collection is left
\* as it is; a save on this path strictly enlarges the document's types; the
\* merge path never fetches details, never alerts and never creates.
C18_MergeWritesOnlyOnGrowth ==
  [][ \A w \in Solo :
        pc[w] = "merge"
          => /\ Range(CurrentPlace(w).types) \subseteq Range(existingPlace[w].types)
                  => /\ places' = places
                     /\ lastOp'[w] = "merge"
                     /\ pc'[w] = "persist" /\ error'[w] = NoError
             /\ places' # places
                  => /\ lastOp'[w] = "save"
                     /\ Range(places'[existingPlace[w].index].types)
                          = Range(existingPlace[w].types)
                              \cup Range(CurrentPlace(w).types)
                     /\ Range(places'[existingPlace[w].index].types)
                          # Range(places[existingPlace[w].index].types)
             /\ fetched' = fetched /\ alertCalls' = alertCalls
             /\ created' = created /\ Len(places') = Len(places)
             /\ pc'[w] \in {"persist", "catch"} ]_vars

\* C18 witness: processPlace has returned from the merge path without a save,
\* for a candidate all of whose types the found document held.
C18_Witness ==
  \E w \in Solo :
    /\ pc[w] = "persist" /\ lastOp[w] = "merge"
    /\ existingPlace[w].index # 0 /\ passed[w] # <<>>
    /\ Range(Last(passed[w]).types) \subseteq Range(existingPlace[w].types)
    /\ places[existingPlace[w].index].types = existingPlace[w].types

\* C19: with overlapping runs, every saved writeCheckpoint leaves the stored
\* value equal to the writer's checkpointId, whatever was stored before; the
\* value a run writes is never below the value that run read.
C19_WriteReplacesUnconditionally ==
  [][ \A w \in Workers :
        /\ cpWrites'[w] > cpWrites[w] => StoredCheckpoint' = checkpointId[w]
        /\ pc'[w] = "writeCheckpoint" => checkpointId'[w] >= cpAtStart'[w] ]_vars

\* C19 witness: two overlapping runs have both written the checkpoint; the
\* stored value is the one w wrote and lies below the one v had stored.
C19_Witness ==
  \E w, v \in Workers :
    /\ w # v
    /\ cpWrites[w] = 1 /\ cpWrites[v] = 1
    /\ pc[w] = "notify" /\ lastOp[w] = "writeCheckpoint"
    /\ StoredCheckpoint = checkpointId[w]
    /\ checkpointId[v] > StoredCheckpoint
    /\ cpAtStart[w] < cpAtStart[v]

\* C20: with overlapping runs, a place id never has more than one document,
\* more than one successful create or more than one alert; a run whose create
\* was rejected with DuplicateKey finds exactly one document of that id
\* stored by one create, goes to catch, never writes the checkpoint and
\* reports Failure.
C20_UniqueKeyBackstop ==
  /\ \A p \in PlaceIds :
       /\ Cardinality(Records(p)) <= 1
       /\ created[p] <= 1
       /\ alertCalls[p] <= 1
  /\ \A w \in Workers :
       error[w].kind = "DuplicateKey"
         => /\ error[w].from = "save"
            /\ existingPlace[w] = NoDocument
            /\ Cardinality(Records(CurrentPlace(w).id)) = 1
            /\ created[CurrentPlace(w).id] = 1
            /\ cpWrites[w] = 0
            /\ pc[w] \in {"catch", "finally", "idle"}
            /\ lastNote[w].status # "Succes"
            /\ pc[w] # "catch" => /\ endNotes[w] = 1
                                  /\ lastNote[w].status = "Echec"
                                  /\ lastNote[w].message = error[w]

\* C20 witness: both runs found the id absent; one created the document, the
\* other was rejected with DuplicateKey and has ended with a Failure note
\* while the checkpoint is still the one both runs read.
C20_Witness ==
  \E w, v \in Workers :
    /\ w # v
    /\ Ended(w) /\ error[w].kind = "DuplicateKey"
    /\ lastNote[w].status = "Echec"
    /\ existingPlace[v] = NoDocument /\ pc[v] \in {"alert", "persist"}
    /\ lastOp[v] \in {"save", "alert"}
    /\ CurrentPlace(w).id \in {c.id : c \in returned[v]}
    /\ created[CurrentPlace(w).id] = 1
    /\ StoredCheckpoint = cp0

\* The largest id of the Location collection.
LargestId ==
  CHOOSE n \in {locations[k].id : k \in DOMAIN locations} :
    \A k \in DOMAIN locations : locations[k].id <= n

\* The checkpoint is at the largest id and every location above the first
\* checkpoint was fully processed by some run.
AllProcessed ==
  /\ StoredCheckpoint = LargestId
  /\ \A k \in DOMAIN locations : locations[k].id > cp0 => fullRuns[k] >= 1

\* C17: when main() is re-invoked over an ascending list and failures stop,
\* the checkpoint eventually stays at the largest id with every location
\* fully processed; from then on no step changes the Place collection or the
\* stored checkpoint, and a run that read that checkpoint processes no
\* location, and when it does not fail saves the same value and reports
\* Success with count 0; every run ends, after at most maxProcessed location
\* passes.
C17_ProgressToCompletion ==
  /\ <>[]AllProcessed
  /\ \A w \in Solo : (pc[w] # "idle") ~> (pc[w] = "idle")
  /\ [][ AllProcessed => /\ AllProcessed'
                         /\ places' = places
                         /\ StoredCheckpoint' = StoredCheckpoint ]_vars
  /\ [](\A w \in Solo :
         /\ processedCount[w] <= maxProcessed
         /\ Len(completed[w]) = processedCount[w]
         /\ pc[w] \in {"search", "persist", "merge", "details", "create", "alert"}
              => processedCount[w] < maxProcessed
         /\ (AllProcessed /\ cpAtStart[w] = LargestId)
              => /\ completed[w] = <<>>
                 /\ checkpointId[w] \in {0, LargestId}
                 /\ (pc[w] = "finally" /\ error[w] = NoError)
                      => /\ cpWrites[w] = 1
                         /\ lastNote[w].status = "Succes"
                         /\ lastNote[w].count = 0)

\* C17 witness: on the list longer than the cap, after failed runs and
\* capped runs, a run started at the largest id has ended in Success with
\* count 0.
C17_Witness ==
  \E w \in Solo :
    /\ Len(locations) > maxProcessed
    /\ FailuresStopped /\ AllProcessed
    /\ cpAtStart[w] = LargestId /\ cp0 = 0
    /\ \E k \in DOMAIN locations : fullRuns[k] > 1
    /\ pc[w] = "idle" /\ lastOp[w] = "disconnect"
    /\ lastNote[w].status = "Succes" /\ lastNote[w].count = 0

\* C21: within one run, every completed location raises checkpointId strictly,
\* to that location's id; a location is entered only when its id is above the
\* running cursor and passed over when it is not, so the ids completed in a
\* run are strictly ascending (none twice, also when the list repeats ids)
\* and a location the loop has passed was not completed exactly when its id
\* is at most the value read at the start or the id of a location completed
\* before it in the same run.
C21_RunningCursor ==
  /\ [][ \A w \in Solo :
            /\ completed'[w] # completed[w] /\ completed'[w] # <<>>
                 => /\ checkpointId'[w] > checkpointId[w]
                    /\ checkpointId'[w] = locs[w][i[w]].id
            /\ (pc[w] = "loop" /\ pc'[w] = "search")
                 => locs[w][i[w]].id > checkpointId[w]
            /\ (pc[w] = "loop" /\ pc'[w] = "loop")
                 => /\ locs[w][i[w]].id <= checkpointId[w]
                    /\ i'[w] = i[w] + 1 /\ completed'[w] = completed[w] ]_vars
  /\ [](\A w \in Solo :
         /\ \A j, k \in DOMAIN completed[w] :
              j < k => CompletedIds(w)[j] < CompletedIds(w)[k]
         /\ pc[w] \in {"loop", "search", "persist", "merge", "details", "create",
                       "alert", "writeCheckpoint", "notify"}
              => checkpointId[w] = LastCompletedId(w)
         /\ \A k \in 1..(i[w] - 1) :
              k \notin Range(completed[w])
                <=> \/ locs[w][k].id <= cpAtStart[w]
                    \/ \E j \in Range(completed[w]) :
                         j < k /\ locs[w][k].id <= locs[w][j].id)

\* C21 witness: a run that read checkpoint 0 has completed a location and
\* then passed over a later one with the same id and one with a smaller id,
\* both above the value read at the start.
C21_Witness ==
  \E w \in Solo :
    /\ pc[w] = "writeCheckpoint" /\ cpAtStart[w] = 0 /\ completed[w] # <<>>
    /\ \E j \in Range(completed[w]) :
         \E k \in (j + 1)..Len(locs[w]) :
           /\ locs[w][k].id = locs[w][j].id /\ k \notin Range(completed[w])
    /\ \E j \in Range(completed[w]) :
         \E k \in (j + 1)..Len(locs[w]) :
           /\ locs[w][k].id < locs[w][j].id /\ locs[w][k].id > cpAtStart[w]
           /\ k \notin Range(completed[w])

====
